---- MODULE Spec2Model ----
(***************************************************************************)
(* A model of the MCP front ends of bsong75/mcp:                           *)
(*   - advanced_gradio.py: the UI handlers, the synchronous adapter        *)
(*     call_tool_sync (thread + join(timeout) + queue) and the bridge      *)
(*     sequence call_tool_async (stdio_client / ClientSession /           *)
(*     initialize / call_tool);                                            *)
(*   - client.py: the console client with its single session and its       *)
(*     chat loop.                                                          *)
(* The two are separate programs; a behaviour is a run of one of them.     *)
(*                                                                         *)
(* A text is a sequence of strings.  A user message is a sequence of      *)
(* one-character strings, so that strip, startswith, lower and slicing     *)
(* are computed character by character.  The emoji of the source are       *)
(* written by their code points ("U+1F9EE" is the abacus).                 *)
(***************************************************************************)
EXTENDS Integers, Sequences, FiniteSets, TLC

(***************************************************************************)
(* Bounds of the model.                                                    *)
(***************************************************************************)
\* UI handlers (call_tool_sync invocations) that may run at the same time.
MaxInv == 2
\* Longest run of blanks put before, inside and after a message.
MaxPad == 1
\* Longest chat history handed to a UI handler.
MaxHist == 2

(***************************************************************************)
(* Program constants.                                                      *)
(***************************************************************************)
\* thread.join(timeout=300)
JoinTimeout == 300

(***************************************************************************)
(* Strings.                                                                *)
(***************************************************************************)
\* str.isspace for the characters of the model
Whitespace == {" ", "\t"}

UpperCase == <<"A", "C", "E", "H", "I", "L", "M", "O", "Q", "R", "S", "T", "U", "X", "Z">>
LowerCase == <<"a", "c", "e", "h", "i", "l", "m", "o", "q", "r", "s", "t", "u", "x", "z">>

\* str.lower on one character
LowerChar(c) ==
    IF \E k \in 1..Len(UpperCase) : UpperCase[k] = c
    THEN LowerCase[CHOOSE k \in 1..Len(UpperCase) : UpperCase[k] = c]
    ELSE c

\* a lower that changes nothing
LowerIdentity(s) == s

\* str.lower
Lower(s) == [k \in 1..Len(s) |-> LowerChar(s[k])]

\* s[n:]
Slice(s, n) == IF n >= Len(s) THEN <<>> ELSE SubSeq(s, n + 1, Len(s))

RECURSIVE LStrip(_)
LStrip(s) ==
    IF s = <<>> THEN <<>>
    ELSE IF Head(s) \in Whitespace THEN LStrip(Tail(s)) ELSE s

RECURSIVE RStrip(_)
RStrip(s) ==
    IF s = <<>> THEN <<>>
    ELSE IF s[Len(s)] \in Whitespace THEN RStrip(SubSeq(s, 1, Len(s) - 1)) ELSE s

\* str.strip
Strip(s) == RStrip(LStrip(s))

\* str.startswith
StartsWith(s, p) == Len(s) >= Len(p) /\ SubSeq(s, 1, Len(p)) = p

\* the literals of the source
calc_ == <<"c", "a", "l", "c", ":">>
search_ == <<"s", "e", "a", "r", "c", "h", ":">>
summarize_ == <<"s", "u", "m", "m", "a", "r", "i", "z", "e", ":">>
quit_ == <<"q", "u", "i", "t">>
exit_ == <<"e", "x", "i", "t">>
q_ == <<"q">>
tools_ == <<"t", "o", "o", "l", "s">>

(***************************************************************************)
(* Texts of advanced_gradio.py.                                            *)
(***************************************************************************)
TimeoutText == <<"U+23F1 Timeout: Request took too long">>
NoResponseSync == <<"U+274C No response received">>
NoResponseAsync == <<"No response received">>
ErrorPrefix == <<"Error: ">>
CrossPrefix == <<"U+274C ">>
PleaseExpression == <<"Please enter a mathematical expression">>
PleaseQuery == <<"Please enter a search query">>
PleaseText == <<"Please enter text to summarize">>
CalcMarker == <<"U+1F9EE ">>
SearchMarker == <<"U+1F50D ">>
SummarizeMarker == <<"U+1F4DD ">>
ChatMarker == <<"U+1F916 ">>

\* str(e) of the faults the bridge sequence can meet
ConnectErrText == <<"stdio_client: cannot start server.py">>
InitErrText == <<"initialize: connection closed">>
CallErrText == <<"call_tool: request failed">>
LoopErrText == <<"new_event_loop: too many open files">>

(***************************************************************************)
(* The tool host as the front ends see it: what call_tool may answer.      *)
(***************************************************************************)
NoCall == [tool |-> "", argname |-> "", arg |-> <<>>]
ToolCall(tool, argname, arg) == [tool |-> tool, argname |-> argname, arg |-> arg]

\* the text a tool returns for its argument
ToolText(c) == <<c.tool, "(">> \o c.arg \o <<")">>
\* the text of a tool that caught its own fault
ToolErrorText(c) == <<"Error: ", c.tool, " failed">>
\* the answers of call_tool: a text, the text of a tool's own error, an empty
\* text, no content at all
Answers == {"text", "error_text", "empty_text", "no_content"}
\* result.content of the CallToolResult: a list of text items
Content(c, o) ==
    IF o = "text" THEN <<ToolText(c)>>
    ELSE IF o = "error_text" THEN <<ToolErrorText(c)>>
    ELSE IF o = "empty_text" THEN <<<<>>>>
    ELSE <<>>

\* what the host and the runtime may do to one bridge sequence: every fault
\* the sequence can meet, or only an answer and a failing call
FullEnv ==
    [loop |-> {"ok", "fail"}, connect |-> {"ok", "fail"},
     init |-> {"ok", "Exception", "BaseException"},
     call |-> Answers \cup {"Exception", "BaseException"}]
CalmEnv ==
    [loop |-> {"ok"}, connect |-> {"ok"}, init |-> {"ok"}, call |-> {"text", "Exception"}]
\* the faults that keep a sequence from reaching its call_tool, and an answer
HandshakeEnv ==
    [loop |-> {"ok"}, connect |-> {"ok", "fail"}, init |-> {"ok", "Exception"}, call |-> {"text"}]

(***************************************************************************)
(* The UI handlers' own decisions (no state).                              *)
(***************************************************************************)
\* `not message`: only the empty string counts as blank
BlankOnlyEmpty(s) == s = <<>>

\* `not message.strip()`
Blank(s) == Strip(s) = <<>>

\* what a handler does next: show a text, or call_tool_sync(tool, {argname: arg})
ShowText(t) == [call |-> FALSE, text |-> t, req |-> NoCall]
CallSync(tool, argname, arg) == [call |-> TRUE, text |-> <<>>, req |-> ToolCall(tool, argname, arg)]

calculate(expression) ==
    IF Blank(expression) THEN ShowText(PleaseExpression)
    ELSE CallSync("calculate", "expression", expression)

web_search(query) ==
    IF Blank(query) THEN ShowText(PleaseQuery)
    ELSE CallSync("web_search", "query", query)

summarize(text) ==
    IF Blank(text) THEN ShowText(PleaseText)
    ELSE CallSync("summarize_text", "text", text)

\* the branch multi_tool_response takes for a non-blank message
MultiToolRoute(message) ==
    IF StartsWith(message, calc_)
    THEN [branch |-> "calculate", marker |-> CalcMarker, step |-> calculate(Strip(Slice(message, 5)))]
    ELSE IF StartsWith(message, search_)
    THEN [branch |-> "web_search", marker |-> SearchMarker, step |-> web_search(Strip(Slice(message, 7)))]
    ELSE IF StartsWith(message, summarize_)
    THEN [branch |-> "summarize_text", marker |-> SummarizeMarker, step |-> summarize(Strip(Slice(message, 10)))]
    ELSE [branch |-> "chat_with_gemma3", marker |-> ChatMarker,
          step |-> CallSync("chat_with_gemma3", "message", message)]

\* chat_response: always the chat tool, no marker
ChatRoute(message) ==
    [branch |-> "chat_with_gemma3", marker |-> <<>>,
     step |-> CallSync("chat_with_gemma3", "message", message)]

HandlerKinds == {"multi_tool_response", "chat_response"}

HandlerRoute(k, message) ==
    IF k = "multi_tool_response" THEN MultiToolRoute(message) ELSE ChatRoute(message)

\* a handler that returns the new pair alone
AppendEntryAlone(history, message, marker, result) == <<<<message, marker \o result>>>>

\* history.append((message, f"{marker}{result}"))
AppendEntry(history, message, marker, result) ==
    Append(history, <<message, marker \o result>>)

(***************************************************************************)
(* call_tool_async and call_tool_sync: the parts without state.            *)
(***************************************************************************)
\* lines 33-35: the text of a CallToolResult
ResultText(content) ==
    IF content # <<>> /\ content[1] # <<>> THEN content[1] ELSE NoResponseAsync

\* lines 37-38: except Exception as e: return f"Error: {str(e)}"
CallToolAsyncExcept(etext) == ErrorPrefix \o etext

\* lines 65-70 with the `except queue.Empty` clause left out
SyncAfterJoinNoExcept(alive, q) ==
    IF alive THEN [fault |-> FALSE, text |-> TimeoutText]
    ELSE IF q = <<>> THEN [fault |-> TRUE, text |-> <<>>]
    ELSE IF Head(q)[1] = "success" THEN [fault |-> FALSE, text |-> Head(q)[2]]
    ELSE [fault |-> FALSE, text |-> CrossPrefix \o Head(q)[2]]

\* lines 65-72: what call_tool_sync returns once join has returned
SyncAfterJoin(alive, q) ==
    IF alive THEN [fault |-> FALSE, text |-> TimeoutText]
    ELSE IF q = <<>> THEN [fault |-> FALSE, text |-> NoResponseSync]
    ELSE IF Head(q)[1] = "success" THEN [fault |-> FALSE, text |-> Head(q)[2]]
    ELSE [fault |-> FALSE, text |-> CrossPrefix \o Head(q)[2]]

(***************************************************************************)
(* Inputs.                                                                 *)
(***************************************************************************)
Inv == 1..MaxInv

RECURSIVE Spaces(_)
Spaces(n) == IF n = 0 THEN <<>> ELSE <<" ">> \o Spaces(n - 1)

Pads == {Spaces(n) : n \in 0..MaxPad}

Heads == {<<>>, calc_, <<"C", "a", "l", "c", ":">>, search_, summarize_}

Bodies ==
    {<<>>, <<"\t">>, <<"2", "+", "2">>, <<"a", " ", "b">>, <<"s", "e", "a", "r", "c", "h", ":", "x">>,
     <<"Q", "u", "i", "t">>, <<"T", "O", "O", "L", "S">>}

\* what a user may type: blanks, a head, blanks, a body, the same blanks again
Messages == {a \o h \o b \o t \o b : a \in Pads, h \in Heads, b \in Pads, t \in Bodies}

\* the messages of the runs that explore the adapter
FewMessages == {<<" ">>, calc_ \o <<" ", "2", "+", "2">>, <<"a", " ", "b">>}
\* the message of the concurrent runs
ConcMessage == calc_ \o <<" ", "2", "+", "2">>

OldPairs == {<<<<"h", "i">>, <<"U+1F916 ", "hello">>>>, <<calc_, CalcMarker \o PleaseExpression>>}

RECURSIVE SeqsUpTo(_, _)
SeqsUpTo(S, n) ==
    IF n = 0 THEN {<<>>}
    ELSE LET shorter == SeqsUpTo(S, n - 1)
         IN shorter \cup {Append(h, x) : h \in shorter, x \in S}

\* the histories the chatbot component may hand to a handler
Histories == SeqsUpTo(OldPairs, MaxHist)

(***************************************************************************)
(* State.                                                                  *)
(***************************************************************************)
VARIABLES
    program,      \* which program this run is: "advanced_gradio.py" or "client.py"
    \* -- advanced_gradio.py, per handler invocation --
    hpc,          \* the handler: "idle", "join", "after_join", "done"
    kind,         \* which handler runs
    message,      \* its message argument
    histIn,       \* its history argument
    history,      \* the history it returns
    req,          \* the call handed to call_tool_sync
    ret,          \* what call_tool_sync returned
    fault,        \* whether call_tool_sync raised into the handler
    waited,       \* seconds the handler has been in thread.join
    wpc,          \* the worker thread's position
    exc,          \* the exception unwinding in the worker
    transport,    \* stdio_client: "none", "open", "closed"
    session,      \* ClientSession: "none", "open", "closed"
    sid,          \* the ClientSession object the invocation works on, 0 before line 29
    initialized,  \* whether session.initialize() has returned
    outstanding,  \* call_tool requests sent and not yet answered
    ncalls,       \* call_tool requests ever sent on the session
    result,       \* what call_tool_async returns
    asyncAt,      \* the handler's waited when call_tool_async returned, -1 before
    queue,        \* result_queue
    \* -- client.py --
    cpc,          \* the console client's position
    ctransport,
    csession,
    coutstanding,
    cinput,       \* user_input of the current iteration
    cbranch,      \* the branch the chat loop took for it
    creq,         \* the call it issued
    cprinted,     \* the last text it printed
    clast,        \* how the last call_tool ended
    cexc,         \* whether an exception is unwinding out of main
    cend          \* why the chat loop ended

uiVars == <<hpc, kind, message, histIn, history, req, ret, fault, waited, wpc, exc,
            transport, session, sid, initialized, outstanding, ncalls, result, asyncAt, queue>>
handlerVars == <<hpc, kind, message, histIn, history, req, ret, fault, waited>>
workerVars == <<wpc, exc, transport, session, sid, initialized, outstanding, ncalls, result, asyncAt, queue>>
consoleVars == <<cpc, ctransport, csession, coutstanding, cinput, cbranch, creq, cprinted, clast, cexc, cend>>
vars == <<program, uiVars, consoleVars>>

Programs == {"advanced_gradio.py", "client.py"}

Init ==
    /\ program \in Programs
    /\ hpc = [i \in Inv |-> "idle"]
    /\ kind = [i \in Inv |-> "multi_tool_response"]
    /\ message = [i \in Inv |-> <<>>]
    /\ histIn = [i \in Inv |-> <<>>]
    /\ history = [i \in Inv |-> <<>>]
    /\ req = [i \in Inv |-> NoCall]
    /\ ret = [i \in Inv |-> <<>>]
    /\ fault = [i \in Inv |-> FALSE]
    /\ waited = [i \in Inv |-> 0]
    /\ wpc = [i \in Inv |-> "none"]
    /\ exc = [i \in Inv |-> "none"]
    /\ transport = [i \in Inv |-> "none"]
    /\ session = [i \in Inv |-> "none"]
    /\ sid = [i \in Inv |-> 0]
    /\ initialized = [i \in Inv |-> FALSE]
    /\ outstanding = [i \in Inv |-> 0]
    /\ ncalls = [i \in Inv |-> 0]
    /\ result = [i \in Inv |-> <<>>]
    /\ asyncAt = [i \in Inv |-> -1]
    /\ queue = [i \in Inv |-> <<>>]
    /\ cpc = "connect"
    /\ ctransport = "none"
    /\ csession = "none"
    /\ coutstanding = 0
    /\ cinput = <<>>
    /\ cbranch = "none"
    /\ creq = NoCall
    /\ cprinted = <<>>
    /\ clast = "none"
    /\ cexc = FALSE
    /\ cend = "none"

(***************************************************************************)
(* advanced_gradio.py: a UI handler and call_tool_sync.                    *)
(***************************************************************************)
\* threading.Thread.is_alive
IsAlive(i) == wpc[i] \notin {"none", "dead"}

\* A click: handler k is called with message m and history h.  Invocations
\* are numbered in the order they arrive.  A blank message returns at once; a
\* tab function that refuses its input appends its own text; otherwise
\* call_tool_sync starts the worker thread and the handler enters thread.join.
HandlerStart(i, k, m, h) ==
    /\ program = "advanced_gradio.py"
    /\ hpc[i] = "idle"
    /\ \A j \in Inv : j < i => hpc[j] # "idle"
    /\ kind' = [kind EXCEPT ![i] = k]
    /\ message' = [message EXCEPT ![i] = m]
    /\ histIn' = [histIn EXCEPT ![i] = h]
    /\ IF Blank(m)
       THEN /\ hpc' = [hpc EXCEPT ![i] = "done"]
            /\ history' = [history EXCEPT ![i] = h]
            /\ UNCHANGED <<req, ret, wpc>>
       ELSE LET r == HandlerRoute(k, m)
            IN IF r.step.call
               THEN /\ hpc' = [hpc EXCEPT ![i] = "join"]
                    /\ req' = [req EXCEPT ![i] = r.step.req]
                    /\ wpc' = [wpc EXCEPT ![i] = "start"]
                    /\ UNCHANGED <<ret, history>>
               ELSE /\ hpc' = [hpc EXCEPT ![i] = "done"]
                    /\ ret' = [ret EXCEPT ![i] = r.step.text]
                    /\ history' = [history EXCEPT ![i] = AppendEntry(h, m, r.marker, r.step.text)]
                    /\ UNCHANGED <<req, wpc>>
    /\ UNCHANGED <<fault, waited, exc, transport, session, sid, initialized, outstanding,
                   ncalls, result, asyncAt, queue, consoleVars, program>>

\* Time passes while the handler is blocked in thread.join(timeout=300): the
\* model observes the clock only at the expiry of the timeout.
Tick(i) ==
    /\ hpc[i] = "join"
    /\ waited[i] < JoinTimeout
    /\ waited' = [waited EXCEPT ![i] = JoinTimeout]
    /\ UNCHANGED <<hpc, kind, message, histIn, history, req, ret, fault, workerVars,
                   consoleVars, program>>

\* thread.join() with no timeout
JoinDoneNoTimeout(i) == wpc[i] = "dead"

\* thread.join(timeout=300) returns: the thread has ended, or the timeout expired
JoinDone(i) == wpc[i] = "dead" \/ waited[i] >= JoinTimeout

JoinReturn(i) ==
    /\ hpc[i] = "join"
    /\ JoinDone(i)
    /\ hpc' = [hpc EXCEPT ![i] = "after_join"]
    /\ UNCHANGED <<kind, message, histIn, history, req, ret, fault, waited, workerVars,
                   consoleVars, program>>

\* Lines 65-72, then the handler's history.append and return.
HandlerFinish(i) ==
    /\ hpc[i] = "after_join"
    /\ LET r == SyncAfterJoin(IsAlive(i), queue[i])
           rt == HandlerRoute(kind[i], message[i])
       IN /\ fault' = [fault EXCEPT ![i] = r.fault]
          /\ ret' = [ret EXCEPT ![i] = r.text]
          /\ history' = [history EXCEPT ![i] =
                            IF r.fault THEN history[i]
                            ELSE AppendEntry(histIn[i], message[i], rt.marker, r.text)]
    /\ hpc' = [hpc EXCEPT ![i] = "done"]
    /\ UNCHANGED <<kind, message, histIn, req, waited, consoleVars, program>>

\* a timeout that also tore the worker down (the code has no such step)
HandlerReturnCancelling(i) ==
    /\ HandlerFinish(i)
    /\ IF IsAlive(i)
       THEN /\ wpc' = [wpc EXCEPT ![i] = "dead"]
            /\ session' = [session EXCEPT ![i] = IF @ = "open" THEN "closed" ELSE @]
            /\ transport' = [transport EXCEPT ![i] = IF @ = "open" THEN "closed" ELSE @]
            /\ outstanding' = [outstanding EXCEPT ![i] = 0]
            /\ UNCHANGED <<exc, sid, initialized, ncalls, result, asyncAt, queue>>
       ELSE UNCHANGED workerVars

\* call_tool_sync returns to the handler, which returns to the UI; nothing is
\* sent to the worker thread
HandlerReturn(i) ==
    /\ HandlerFinish(i)
    /\ UNCHANGED workerVars

(***************************************************************************)
(* advanced_gradio.py: the worker thread (thread_func, run_async,          *)
(* call_tool_async).                                                       *)
(***************************************************************************)
workerFrame == <<handlerVars, consoleVars, program>>

\* call_tool_async returns text t to run_until_complete
AsyncReturns(i, t) ==
    /\ result' = [result EXCEPT ![i] = t]
    /\ asyncAt' = [asyncAt EXCEPT ![i] = waited[i]]
    /\ wpc' = [wpc EXCEPT ![i] = "returned"]

\* lines 43-44: the event loop is created; new_event_loop may raise, which
\* thread_func records as ("error", str(e)) (lines 58-59)
WNewLoop(i, env) ==
    /\ wpc[i] = "start"
    /\ \E o \in env.loop :
          IF o = "ok"
          THEN /\ wpc' = [wpc EXCEPT ![i] = "connect"]
               /\ UNCHANGED queue
          ELSE /\ queue' = [queue EXCEPT ![i] = Append(@, <<"error", LoopErrText>>)]
               /\ wpc' = [wpc EXCEPT ![i] = "exiting"]
    /\ UNCHANGED <<exc, transport, session, sid, initialized, outstanding, ncalls, result, asyncAt, workerFrame>>

\* line 26: async with stdio_client(...): the host process is spawned, or the
\* spawn raises and line 37 turns it into text
WConnect(i, env) ==
    /\ wpc[i] = "connect"
    /\ \E o \in env.connect :
          IF o = "ok"
          THEN /\ transport' = [transport EXCEPT ![i] = "open"]
               /\ wpc' = [wpc EXCEPT ![i] = "enter_session"]
               /\ UNCHANGED <<result, asyncAt>>
          ELSE /\ AsyncReturns(i, CallToolAsyncExcept(ConnectErrText))
               /\ UNCHANGED transport
    /\ UNCHANGED <<exc, session, sid, initialized, outstanding, ncalls, queue, workerFrame>>

\* one ClientSession object kept and handed to every invocation (the code
\* keeps none)
CachedSession(i) == 1

\* ClientSession(read_stream, write_stream) constructs an object on every
\* entry of line 29; the object is named by the invocation that constructed it
NewSession(i) == i

\* line 29: async with ClientSession(...) as session
WEnterSession(i) ==
    /\ wpc[i] = "enter_session"
    /\ session' = [session EXCEPT ![i] = "open"]
    /\ sid' = [sid EXCEPT ![i] = NewSession(i)]
    /\ wpc' = [wpc EXCEPT ![i] = "initialize"]
    /\ UNCHANGED <<exc, transport, initialized, outstanding, ncalls, result, asyncAt, queue, workerFrame>>

\* an exception that reached the except clause (or the thread's end) with the
\* session and the transport left as they were
WRaiseUnclosed(i, e, t) ==
    /\ exc' = [exc EXCEPT ![i] = "none"]
    /\ result' = [result EXCEPT ![i] = IF e = "Exception" THEN CallToolAsyncExcept(t) ELSE t]
    /\ wpc' = [wpc EXCEPT ![i] = IF e = "Exception" THEN "returned" ELSE "exiting"]

\* an exception raised inside the two async with blocks starts unwinding
\* through them: both __aexit__ run before any except clause sees it
WRaise(i, e, t) ==
    /\ exc' = [exc EXCEPT ![i] = e]
    /\ result' = [result EXCEPT ![i] = t]
    /\ wpc' = [wpc EXCEPT ![i] = "exit_session"]

\* line 30: await session.initialize()
WInitialize(i, env) ==
    /\ wpc[i] = "initialize"
    /\ \E o \in env.init :
          IF o = "ok"
          THEN /\ initialized' = [initialized EXCEPT ![i] = TRUE]
               /\ wpc' = [wpc EXCEPT ![i] = "call_tool"]
               /\ UNCHANGED <<exc, result>>
          ELSE /\ WRaise(i, o, IF o = "Exception" THEN InitErrText ELSE <<>>)
               /\ UNCHANGED initialized
    /\ UNCHANGED <<transport, session, sid, outstanding, ncalls, asyncAt, queue, workerFrame>>

\* line 31: the call_tool request is sent on the session
WCallToolSend(i) ==
    /\ wpc[i] = "call_tool"
    /\ outstanding' = [outstanding EXCEPT ![i] = @ + 1]
    /\ ncalls' = [ncalls EXCEPT ![i] = @ + 1]
    /\ wpc' = [wpc EXCEPT ![i] = "await_call"]
    /\ UNCHANGED <<exc, transport, session, sid, initialized, result, asyncAt, queue, workerFrame>>

\* lines 31-35: the answer arrives and its text is taken, or the await raises
WCallToolReturn(i, env) ==
    /\ wpc[i] = "await_call"
    /\ outstanding' = [outstanding EXCEPT ![i] = @ - 1]
    /\ \E o \in env.call :
          IF o \in Answers
          THEN /\ result' = [result EXCEPT ![i] = ResultText(Content(req[i], o))]
               /\ wpc' = [wpc EXCEPT ![i] = "exit_session"]
               /\ UNCHANGED exc
          ELSE WRaise(i, o, IF o = "Exception" THEN CallErrText ELSE <<>>)
    /\ UNCHANGED <<transport, session, sid, initialized, ncalls, asyncAt, queue, workerFrame>>

\* ClientSession.__aexit__, on return and on exception alike
WExitSession(i) ==
    /\ wpc[i] = "exit_session"
    /\ session' = [session EXCEPT ![i] = "closed"]
    /\ wpc' = [wpc EXCEPT ![i] = "exit_transport"]
    /\ UNCHANGED <<exc, transport, sid, initialized, outstanding, ncalls, result, asyncAt, queue, workerFrame>>

\* stdio_client.__aexit__; then the return value leaves call_tool_async, an
\* Exception is turned into text by lines 37-38, and a BaseException escapes
\* both except clauses so that the thread ends with nothing recorded (no
\* clause ever catches it: it stays the thread's exception)
WExitTransport(i) ==
    /\ wpc[i] = "exit_transport"
    /\ transport' = [transport EXCEPT ![i] = "closed"]
    /\ IF exc[i] = "none" THEN AsyncReturns(i, result[i])
       ELSE IF exc[i] = "Exception" THEN AsyncReturns(i, CallToolAsyncExcept(result[i]))
       ELSE /\ wpc' = [wpc EXCEPT ![i] = "exiting"]
            /\ UNCHANGED <<result, asyncAt>>
    /\ exc' = [exc EXCEPT ![i] = IF @ = "Exception" THEN "none" ELSE @]
    /\ UNCHANGED <<session, sid, initialized, outstanding, ncalls, queue, workerFrame>>

\* thread_func with its put left out: the thread ends with nothing recorded
WPutNothing(i) ==
    /\ wpc[i] = "returned"
    /\ wpc' = [wpc EXCEPT ![i] = "exiting"]
    /\ UNCHANGED <<exc, transport, session, sid, initialized, outstanding, ncalls, result, asyncAt, queue,
                   workerFrame>>

\* lines 49-50 and 57: loop.close(), result_queue.put(("success", result))
WPut(i) ==
    /\ wpc[i] = "returned"
    /\ queue' = [queue EXCEPT ![i] = Append(@, <<"success", result[i]>>)]
    /\ wpc' = [wpc EXCEPT ![i] = "exiting"]
    /\ UNCHANGED <<exc, transport, session, sid, initialized, outstanding, ncalls, result, asyncAt, workerFrame>>

\* thread_func returns and the thread ends
WExit(i) ==
    /\ wpc[i] = "exiting"
    /\ wpc' = [wpc EXCEPT ![i] = "dead"]
    /\ UNCHANGED <<exc, transport, session, sid, initialized, outstanding, ncalls, result, asyncAt, queue, workerFrame>>

(***************************************************************************)
(* client.py: the console client.                                          *)
(***************************************************************************)
GoodbyeText == <<"Goodbye!">>
ToolsListText == <<"U+1F527 Available LangChain tools:">>
UsageCalc == <<"Please provide an expression. Example: calc: 2+2">>
UsageSearch == <<"Please provide a search query. Example: search: python programming">>
UsageSummarize == <<"Please provide text to summarize. Example: summarize: <your text here>">>

\* lines 49-98: what one iteration of the chat loop does with user_input
\* (already stripped by line 47)
ConsoleRoute(user_input) ==
    IF Lower(user_input) \in {quit_, exit_, q_}
    THEN [branch |-> "quit", step |-> ShowText(GoodbyeText)]
    ELSE IF user_input = <<>>
    THEN [branch |-> "blank", step |-> ShowText(<<>>)]
    ELSE IF Lower(user_input) = tools_
    THEN [branch |-> "tools", step |-> ShowText(ToolsListText)]
    ELSE IF StartsWith(Lower(user_input), calc_)
    THEN [branch |-> "calculate",
          step |-> LET expression == Strip(Slice(user_input, 5))
                   IN IF expression # <<>> THEN CallSync("calculate", "expression", expression)
                      ELSE ShowText(UsageCalc)]
    ELSE IF StartsWith(Lower(user_input), search_)
    THEN [branch |-> "web_search",
          step |-> LET query == Strip(Slice(user_input, 7))
                   IN IF query # <<>> THEN CallSync("web_search", "query", query)
                      ELSE ShowText(UsageSearch)]
    ELSE IF StartsWith(Lower(user_input), summarize_)
    THEN [branch |-> "summarize_text",
          step |-> LET text == Strip(Slice(user_input, 10))
                   IN IF text # <<>> THEN CallSync("summarize_text", "text", text)
                      ELSE ShowText(UsageSummarize)]
    ELSE [branch |-> "chat_with_gemma3", step |-> CallSync("chat_with_gemma3", "message", user_input)]

consoleFrame == <<uiVars, program>>

\* an exception leaves the chat loop (or the handshake) and unwinds out of
\* the two async with blocks towards line 107
CRaise ==
    /\ cexc' = TRUE
    /\ cend' = "fault"
    /\ cpc' = "exit_session"

\* line 17: async with stdio_client(...)
CConnect ==
    /\ program = "client.py"
    /\ cpc = "connect"
    /\ \/ /\ ctransport' = "open"
          /\ cpc' = "enter_session"
          /\ UNCHANGED <<cexc, cend>>
       \/ /\ cexc' = TRUE
          /\ cend' = "fault"
          /\ cpc' = "ended"
          /\ UNCHANGED ctransport
    /\ UNCHANGED <<csession, coutstanding, cinput, cbranch, creq, cprinted, clast, consoleFrame>>

\* line 21: async with ClientSession(...)
CEnterSession ==
    /\ cpc = "enter_session"
    /\ csession' = "open"
    /\ cpc' = "initialize"
    /\ UNCHANGED <<ctransport, coutstanding, cinput, cbranch, creq, cprinted, clast, cexc, cend, consoleFrame>>

\* lines 24-31: initialize and list_tools
CInitialize ==
    /\ cpc = "initialize"
    /\ \/ /\ cpc' = "prompt"
          /\ UNCHANGED <<cexc, cend>>
       \/ CRaise
    /\ UNCHANGED <<ctransport, csession, coutstanding, cinput, cbranch, creq, cprinted, clast, consoleFrame>>

\* a pipelined loop: the next line is read while a call is still in flight
ConsoleReadyPipelined == cpc \in {"prompt", "await_call"}

\* the chat loop reads the next line only when the previous iteration is over:
\* every call_tool is awaited in place (lines 67, 78, 89, 97)
ConsoleReady == cpc = "prompt"

\* lines 47-98: a line is read, stripped and routed
CInput(line) ==
    /\ csession = "open"
    /\ ConsoleReady
    /\ LET user_input == Strip(line)
           r == ConsoleRoute(user_input)
       IN /\ cinput' = user_input
          /\ cbranch' = r.branch
          /\ IF r.step.call
             THEN /\ creq' = r.step.req
                  /\ coutstanding' = coutstanding + 1
                  /\ cpc' = "await_call"
                  /\ UNCHANGED <<cprinted, cend>>
             ELSE /\ creq' = NoCall
                  /\ cprinted' = r.step.text
                  /\ cpc' = IF r.branch = "quit" THEN "exit_session" ELSE "prompt"
                  /\ cend' = IF r.branch = "quit" THEN "quit" ELSE cend
                  /\ UNCHANGED coutstanding
    /\ UNCHANGED <<ctransport, csession, clast, cexc, consoleFrame>>

\* lines 100-105: input() raises EOFError or KeyboardInterrupt
CInputEnds ==
    /\ cpc = "prompt"
    /\ cprinted' = GoodbyeText
    /\ cend' = "eof"
    /\ cpc' = "exit_session"
    /\ UNCHANGED <<ctransport, csession, coutstanding, cinput, cbranch, creq, clast, cexc, consoleFrame>>

\* lines 67-68, 78-79, 89-90, 97-98: the awaited call_tool answers and
\* result.content[0].text is printed.  An exception of call_tool, or the
\* IndexError of content[0] on an empty content list, is caught neither at
\* line 100 nor at line 103.
CCallReturn ==
    /\ cpc = "await_call"
    /\ coutstanding' = coutstanding - 1
    /\ \E o \in Answers \cup {"Exception"} :
          LET c == Content(creq, o)
          IN IF o \in Answers /\ c # <<>>
             THEN /\ cprinted' = c[1]
                  /\ clast' = o
                  /\ cpc' = "prompt"
                  /\ UNCHANGED <<cexc, cend>>
             ELSE /\ clast' = o
                  /\ CRaise
                  /\ UNCHANGED cprinted
    /\ UNCHANGED <<ctransport, csession, cinput, cbranch, creq, consoleFrame>>

\* ClientSession.__aexit__
CExitSession ==
    /\ cpc = "exit_session"
    /\ csession' = "closed"
    /\ cpc' = "exit_transport"
    /\ UNCHANGED <<ctransport, coutstanding, cinput, cbranch, creq, cprinted, clast, cexc, cend, consoleFrame>>

\* stdio_client.__aexit__; lines 107-110 print an exception that got here
CExitTransport ==
    /\ cpc = "exit_transport"
    /\ ctransport' = "closed"
    /\ cprinted' = IF cexc THEN <<"U+274C Error: ">> ELSE cprinted
    /\ cpc' = "ended"
    /\ UNCHANGED <<csession, coutstanding, cinput, cbranch, creq, clast, cexc, cend, consoleFrame>>

(***************************************************************************)
(* The specifications.                                                     *)
(***************************************************************************)
Worker(i, env) ==
    \/ WNewLoop(i, env)
    \/ WConnect(i, env)
    \/ WEnterSession(i)
    \/ WInitialize(i, env)
    \/ WCallToolSend(i)
    \/ WCallToolReturn(i, env)
    \/ WExitSession(i)
    \/ WExitTransport(i)
    \/ WPut(i)
    \/ WExit(i)

Adapter(i) ==
    \/ Tick(i)
    \/ JoinReturn(i)
    \/ HandlerReturn(i)

Console ==
    \/ CConnect
    \/ CEnterSession
    \/ CInitialize
    \/ ConsoleReady /\ \E line \in Messages : CInput(line)
    \/ CInputEnds
    \/ CCallReturn
    \/ CExitSession
    \/ CExitTransport

\* One UI handler invocation on a few messages, under every fault the bridge
\* sequence can meet; or the console client.
Next ==
    \/ hpc[1] = "idle" /\ \E k \in HandlerKinds, m \in FewMessages : HandlerStart(1, k, m, <<>>)
    \/ Adapter(1)
    \/ Worker(1, FullEnv)
    \/ Console

Spec == Init /\ [][Next]_vars

\* The handler's thread runs, and time passes: a handler in join gets to its
\* return.  Nothing is assumed of the worker, which may hang for ever.
Fairness == WF_vars(Tick(1)) /\ WF_vars(JoinReturn(1)) /\ WF_vars(HandlerReturn(1))

LiveSpec == Init /\ [][Next]_vars /\ Fairness

\* One UI handler invocation on every message and history; or the console
\* client.
RouterNext ==
    \/ hpc[1] = "idle" /\ \E k \in HandlerKinds, m \in Messages, h \in Histories : HandlerStart(1, k, m, h)
    \/ Adapter(1)
    \/ Worker(1, CalmEnv)
    \/ Console

RouterSpec == Init /\ [][RouterNext]_vars

\* Several UI handler invocations at the same time; or the console client.
ConcNext ==
    \/ \E i \in Inv : hpc[i] = "idle" /\ HandlerStart(i, "multi_tool_response", ConcMessage, <<>>)
    \/ \E i \in Inv : Adapter(i)
    \/ \E i \in Inv : Worker(i, CalmEnv)
    \/ Console

ConcSpec == Init /\ [][ConcNext]_vars

\* Several UI handler invocations at the same time, each of which may fail
\* before its call_tool; or the console client.
LifecycleNext ==
    \/ \E i \in Inv : hpc[i] = "idle" /\ HandlerStart(i, "multi_tool_response", ConcMessage, <<>>)
    \/ \E i \in Inv : Adapter(i)
    \/ \E i \in Inv : Worker(i, HandshakeEnv)
    \/ Console

LifecycleSpec == Init /\ [][LifecycleNext]_vars

(***************************************************************************)
(* The synchronous adapter (Spec, LiveSpec).                               *)
(***************************************************************************)
\* the bridge sequence of invocation i has ended: call_tool_async returned,
\* or an exception left it
BridgeEnded(i) == wpc[i] \in {"returned", "exiting", "dead"}

\* C1: a handler that entered thread.join leaves it, whatever the worker
\* does: it is never in join with more than the timeout waited, it always gets
\* to its return, and when it has returned while the bridge sequence still has
\* not ended, it returned the timeout text after waiting the 300 s timeout.
C1_TimeoutEndsTheWait ==
    /\ [](\A i \in Inv : hpc[i] = "join" => waited[i] <= JoinTimeout)
    /\ [](\A i \in Inv : (hpc[i] = "done" /\ wpc[i] # "none" /\ ~BridgeEnded(i))
                            => (ret[i] = TimeoutText /\ waited[i] = JoinTimeout))
    /\ \A i \in Inv : (hpc[i] = "join") ~> (hpc[i] = "done")

\* the handler has the timeout text while its worker still awaits call_tool
C1_Witness == hpc[1] = "done" /\ ret[1] = TimeoutText /\ wpc[1] = "await_call"

\* C2: if call_tool_async returned before the timeout expired, call_tool_sync
\* returns exactly the text call_tool_async returned.
C2_Transparent ==
    \A i \in Inv :
        (hpc[i] = "done" /\ asyncAt[i] >= 0 /\ asyncAt[i] < JoinTimeout) => ret[i] = result[i]

\* the texts call_tool_sync can return for call c
SyncTexts(c) ==
    {TimeoutText, NoResponseSync, NoResponseAsync, ToolText(c), ToolErrorText(c),
     ErrorPrefix \o ConnectErrText, ErrorPrefix \o InitErrText, ErrorPrefix \o CallErrText,
     CrossPrefix \o LoopErrText}

\* C3: call_tool_sync never raises into its caller: whatever the bridge
\* sequence met, the handler has a text, one of the nine the outcomes map to.
C3_AlwaysText ==
    \A i \in Inv :
        (hpc[i] = "done" /\ wpc[i] # "none") => (~fault[i] /\ ret[i] \in SyncTexts(req[i]))

\* the thread ended with nothing in the queue, and the handler got the
\* no-response text
C3_Witness == hpc[1] = "done" /\ wpc[1] = "dead" /\ queue[1] = <<>> /\ ret[1] = NoResponseSync

\* C4: once a bridge sequence has ended, by a return or by an exception, its
\* session and its transport are not open; the same holds of the console
\* client once main has ended.
C4_ClosedWhenEnded ==
    /\ \A i \in Inv : BridgeEnded(i) => (session[i] # "open" /\ transport[i] # "open")
    /\ cpc = "ended" => (csession # "open" /\ ctransport # "open")

\* initialize raised on an open session, and the sequence ended with the
\* session and the transport closed
C4_Witness ==
    /\ wpc[1] = "returned"
    /\ result[1] = ErrorPrefix \o InitErrText
    /\ session[1] = "closed"
    /\ transport[1] = "closed"

\* C9: a failed call_tool of the console never ends the chat loop.
C9_FailedCallKeepsLoop ==
    clast \in {"error_text", "empty_text", "no_content", "Exception"} => cend # "fault"

\* C10: returning from call_tool_sync changes nothing of the worker, its
\* session or its queue (no cancellation), and what the handler was given is
\* final: nothing the worker does later reaches it.
C10_TimeoutDoesNotCancel ==
    [][\A i \in Inv :
          /\ (hpc[i] = "after_join" /\ hpc'[i] = "done") =>
                /\ wpc'[i] = wpc[i]
                /\ session'[i] = session[i]
                /\ transport'[i] = transport[i]
                /\ outstanding'[i] = outstanding[i]
                /\ queue'[i] = queue[i]
          /\ hpc[i] = "done" =>
                (hpc'[i] = "done" /\ ret'[i] = ret[i] /\ history'[i] = history[i])]_vars

\* the handler has the timeout text while the session of its call is open
C10_Witness == hpc[1] = "done" /\ ret[1] = TimeoutText /\ session[1] = "open"

(***************************************************************************)
(* The command router (RouterSpec).                                        *)
(***************************************************************************)
\* the router's table as the specification gives it, in priority order
Prefixes ==
    <<[tool |-> "calculate", prefix |-> calc_, argname |-> "expression", marker |-> CalcMarker],
      [tool |-> "web_search", prefix |-> search_, argname |-> "query", marker |-> SearchMarker],
      [tool |-> "summarize_text", prefix |-> summarize_, argname |-> "text", marker |-> SummarizeMarker]>>

AllWhitespace(s) == \A k \in 1..Len(s) : s[k] \in Whitespace

\* t is s without its leading and trailing whitespace
IsTrimOf(t, s) ==
    /\ t = <<>> \/ (t[1] \notin Whitespace /\ t[Len(t)] \notin Whitespace)
    /\ \E a \in 0..Len(s) :
          /\ a + Len(t) <= Len(s)
          /\ SubSeq(s, a + 1, a + Len(t)) = t
          /\ AllWhitespace(SubSeq(s, 1, a))
          /\ AllWhitespace(SubSeq(s, a + Len(t) + 1, Len(s)))

\* the first row of the table whose prefix begins key, 0 when none does
FirstMatch(key) ==
    LET hits == {k \in DOMAIN Prefixes : StartsWith(key, Prefixes[k].prefix)}
    IN IF hits = {} THEN 0 ELSE CHOOSE k \in hits : \A j \in hits : k <= j

\* call c and selection sel are what the table asks for message m, the
\* prefixes being tested on key: the chat tool with m when no prefix matches,
\* else the row's tool with the trimmed remainder, and no call at all when
\* that remainder is blank
Dispatched(key, m, sel, c) ==
    LET k == FirstMatch(key)
    IN IF k = 0
       THEN sel = "chat_with_gemma3" /\ c = ToolCall("chat_with_gemma3", "message", m)
       ELSE LET rest == Slice(m, Len(Prefixes[k].prefix))
            IN /\ sel = Prefixes[k].tool
               /\ IF AllWhitespace(rest) THEN c = NoCall
                  ELSE /\ c.tool = Prefixes[k].tool
                       /\ c.argname = Prefixes[k].argname
                       /\ IsTrimOf(c.arg, rest)

\* the tool the multi-tool handler selected, read off the call it made or,
\* when it made none, off the marker of the entry it appended
UISelected(i) ==
    IF req[i] # NoCall THEN req[i].tool
    ELSE IF history[i] = <<>> THEN "none"
    ELSE LET shown == history[i][Len(history[i])][2]
             rows == {k \in DOMAIN Prefixes : StartsWith(shown, Prefixes[k].marker)}
         IN IF rows = {} THEN "none" ELSE Prefixes[CHOOSE k \in rows : TRUE].tool

UIRouted(i) ==
    kind[i] = "multi_tool_response" /\ hpc[i] # "idle" /\ ~AllWhitespace(message[i])

\* s with every capital letter replaced by its small letter
FoldCase(s) ==
    [k \in 1..Len(s) |->
        IF \E n \in DOMAIN UpperCase : UpperCase[n] = s[k]
        THEN LowerCase[CHOOSE n \in DOMAIN UpperCase : UpperCase[n] = s[k]]
        ELSE s[k]]

\* the console has routed a line that is neither blank nor quit, exit, q, tools
ConsoleRouted ==
    /\ cbranch # "none"
    /\ cinput # <<>>
    /\ FoldCase(cinput) \notin {quit_, exit_, q_, tools_}

\* C5 as claimed: in the console and in the multi-tool UI alike the prefixes
\* are matched with their case, in the order calc:, search:, summarize:.
C5_CaseSensitiveEverywhere ==
    /\ \A i \in Inv : UIRouted(i) => Dispatched(message[i], message[i], UISelected(i), req[i])
    /\ ConsoleRouted => Dispatched(cinput, cinput, cbranch, creq)

\* C5 as amended: the multi-tool UI matches the prefixes with their case on
\* the message as typed; the console matches them on the lower-cased line,
\* so in any case.  In both the first match in the order calc:, search:,
\* summarize: selects the tool, which is called with the trimmed remainder
\* unless that remainder is blank, and then no tool is called; no match
\* selects the chat tool.  A message leads to one call at most.
C5_Dispatch ==
    /\ \A i \in Inv :
          /\ UIRouted(i) => Dispatched(message[i], message[i], UISelected(i), req[i])
          /\ ncalls[i] <= 1
    /\ ConsoleRouted => Dispatched(FoldCase(cinput), cinput, cbranch, creq)
    /\ coutstanding <= 1

\* the console sent "Calc:2+2" to the calculator
C5_Witness ==
    /\ cbranch = "calculate"
    /\ cinput[1] = "C"
    /\ creq = ToolCall("calculate", "expression", <<"2", "+", "2">>)
    /\ cpc = "await_call"

\* C6: a multi-tool handler that has returned for a non-blank message returns
\* its input history followed by one pair: the message, and the marker of the
\* selected tool followed by the text the handler was given for it.
C6_AppendsOnePair ==
    \A i \in Inv :
        (UIRouted(i) /\ hpc[i] = "done") =>
            LET k == FirstMatch(message[i])
                marker == IF k = 0 THEN ChatMarker ELSE Prefixes[k].marker
            IN /\ Len(history[i]) = Len(histIn[i]) + 1
               /\ \A n \in 1..Len(histIn[i]) : history[i][n] = histIn[i][n]
               /\ history[i][Len(history[i])] = <<message[i], marker \o ret[i]>>

\* "calc:" followed by 2+2 on a history of two different pairs: the calculator
\* marker and the calculate tool's text
C6_Witness ==
    /\ hpc[1] = "done"
    /\ Len(histIn[1]) >= 2
    /\ histIn[1][1] # histIn[1][2]
    /\ req[1] = ToolCall("calculate", "expression", <<"2", "+", "2">>)
    /\ history[1][Len(history[1])][2] = CalcMarker \o ToolText(req[1])

\* C7: a handler (multi-tool or chat) called with an empty or all-whitespace
\* message has returned its input history as it was, and has started no
\* worker, opened no transport or session and made no call.
C7_BlankIsNoOp ==
    \A i \in Inv :
        (hpc[i] # "idle" /\ AllWhitespace(message[i])) =>
            /\ hpc[i] = "done"
            /\ history[i] = histIn[i]
            /\ req[i] = NoCall
            /\ wpc[i] = "none"
            /\ transport[i] = "none"
            /\ session[i] = "none"
            /\ ncalls[i] = 0

\* a whitespace-only message on a non-empty history
C7_Witness ==
    /\ hpc[1] = "done"
    /\ message[1] # <<>>
    /\ AllWhitespace(message[1])
    /\ histIn[1] # <<>>
    /\ history[1] = histIn[1]

(***************************************************************************)
(* Sessions under concurrency (ConcSpec).                                  *)
(***************************************************************************)
\* C8: no session ever has more than one call_tool in flight: not the
\* console's single session, and not the session of any UI invocation, which
\* carries one call_tool in all.
C8_OneOutstanding ==
    /\ coutstanding <= 1
    /\ \A i \in Inv : outstanding[i] <= 1 /\ ncalls[i] <= 1

\* two UI sessions with a call in flight at the same time
C8_Witness == outstanding[1] = 1 /\ outstanding[2] = 1 /\ session[1] = "open" /\ session[2] = "open"

(***************************************************************************)
(* The life of a UI session (LifecycleSpec).                               *)
(***************************************************************************)
\* the ClientSession object of invocation i is the object of no other one
OwnSession(i) == \A j \in Inv : j # i => sid[j] # sid[i]

\* invocation i sends call_tool only on an open session of its own on which
\* initialize has returned, and never a second time
CallAfterHandshake(i) ==
    /\ ncalls[i] <= 1
    /\ ncalls[i] = 1 => (sid[i] # 0 /\ initialized[i])
    /\ outstanding[i] = 1 => (session[i] = "open" /\ ncalls[i] = 1)
    /\ sid[i] # 0 => OwnSession(i)

\* C11 as written: every call_tool_sync invocation opens a session of its
\* own, completes initialize on it before its call_tool, and issues exactly
\* one call_tool on it; no session serves two invocations, whatever the
\* interleaving of the handlers.  "Every invocation" is read at the end of
\* the bridge sequence: by then the session was opened and initialized and
\* one call was sent.
C11_ExactlyOneCallEach ==
    \A i \in Inv :
        /\ CallAfterHandshake(i)
        /\ BridgeEnded(i) => (sid[i] # 0 /\ initialized[i] /\ ncalls[i] = 1)

\* C11 as the code has it: a session is opened by every invocation whose
\* host process started, and it is that invocation's alone; call_tool is
\* sent only after initialize returned on it, at most once, and exactly once
\* by the end of a sequence whose initialize returned; a sequence whose
\* connect or initialize failed ends with no call_tool sent.
C11_Lifecycle ==
    \A i \in Inv :
        /\ CallAfterHandshake(i)
        /\ (sid[i] # 0) = (transport[i] # "none" /\ wpc[i] # "enter_session")
        /\ BridgeEnded(i) => ncalls[i] = (IF initialized[i] THEN 1 ELSE 0)

\* two handlers wait at the same time, each with its one call_tool in flight
\* on an initialized session of its own
C11_Witness ==
    /\ hpc[1] = "join" /\ hpc[2] = "join"
    /\ wpc[1] = "await_call" /\ wpc[2] = "await_call"
    /\ initialized[1] /\ initialized[2]
    /\ ncalls[1] = 1 /\ ncalls[2] = 1
    /\ sid[1] # 0 /\ sid[2] # 0 /\ sid[1] # sid[2]

(***************************************************************************)
(* The worker's result queue (Spec).                                       *)
(***************************************************************************)
\* the worker of invocation i is past every put it will make, and its bridge
\* sequence ended by returning or by an exception that `except Exception`
\* catches (in call_tool_async, line 37, or in thread_func, line 58)
EndedOrdinarily(i) == wpc[i] \in {"exiting", "dead"} /\ exc[i] # "BaseException"

\* C12: the worker records at most one outcome, each a success or an error.
\* When its sequence ended by returning or by an ordinary exception it has
\* recorded exactly one before it terminates, so a caller that finds the
\* worker no longer alive after the wait finds one entry in the queue, and a
\* handler that was given the no-response text had a worker whose sequence
\* ended otherwise.
C12_OneOutcomeRecorded ==
    \A i \in Inv :
        /\ Len(queue[i]) <= 1
        /\ \A n \in 1..Len(queue[i]) : queue[i][n][1] \in {"success", "error"}
        /\ EndedOrdinarily(i) => Len(queue[i]) = 1
        /\ (hpc[i] = "after_join" /\ ~IsAlive(i) /\ exc[i] # "BaseException") => Len(queue[i]) = 1
        /\ (hpc[i] = "done" /\ ret[i] = NoResponseSync) => exc[i] = "BaseException"

\* call_tool raised an ordinary exception; the worker recorded its text as
\* the one outcome and ended, and the caller, past the wait, sees it dead
C12_Witness ==
    /\ hpc[1] = "after_join"
    /\ wpc[1] = "dead"
    /\ queue[1] = <<<<"success", CallToolAsyncExcept(CallErrText)>>>>

====
